---- MODULE Spec2Model ----
(***************************************************************************)
(* Model of class DB (js/shared/db.js of Super Simple Highlighter): the    *)
(* PouchDB facade, the create/delete event documents, the two map/reduce   *)
(* views, the removal of superfluous documents, and loadDB.                *)
(*                                                                         *)
(* PouchDB itself is the environment.  A database is the set of its live   *)
(* (not deleted) documents: `store` holds the event documents by id,       *)
(* `design` the design documents.  Every promise continuation of the class *)
(* is one action, so the interleavings of the model are the interleavings  *)
(* of the callbacks of concurrently started calls.                         *)
(***************************************************************************)
EXTENDS Integers, Sequences, FiniteSets, TLC

\* ---------------------------------------------------------------- bounds
\* number of document ids that createHighlight/deleteHighlight may hand out
MaxDocs == 4
\* largest revision generation a document may reach
MaxRev == 2
\* number of callers that may have a facade call in flight at once
MaxTasks == 2
\* number of PouchDB objects that may be constructed for DB.NAME
MaxConns == 3
\* largest number of documents in an array handed to sortDocuments
MaxSort == 3

\* ---------------------------------------------------------------- values
\* JavaScript's undefined
Undefined == "undefined"

\* DB.DOCUMENT.VERB
VERB == [CREATE |-> "create", DELETE |-> "delete"]

\* DB.VIEW_NAME
VIEW_NAME == [MATCH_DATE |-> "match_date_view", SUM |-> "sum_view"]

\* match strings, in lexicographic order: the first is a prefix of the second
MatchOrder == <<"a.com/", "a.com/p">>

Matches == {MatchOrder[i] : i \in DOMAIN MatchOrder}

\* key components carry their collation class: numbers before objects
Num(n) == <<"number", n>>

\* the `{}` of the endkey [match, {}]: the least object
TopKey == <<"object", 0>>

\* the id of no document
NoId == 0

Ids == 1..MaxDocs

\* JavaScript truthiness of an optional string
Truthy(v) == v \notin {Undefined, ""}

\* ---------------------------------------------------------------- state
VARIABLES
  store,    \* live event documents of the main database: id -> document
  design,   \* names of the design documents stored in the main database
  nextId,   \* the next id StringUtils.newUUID() / db.post() hands out
  upd,      \* the updateCreateDocument calls in flight, by caller
  del,      \* the postDeleteDocument call in flight
  rem,      \* the removeMatchingDocuments call in flight
  sweep,    \* the removeAllSuperfluousDocuments call in flight
  last,     \* what the step just taken did (outcome of a finished call)
  conns,    \* the PouchDB objects created for DB.NAME: id -> state
  _db,      \* DB._db: the cached PouchDB object, 0 for null
  tasks,    \* getDB / closeDB / destroyDB / queryDB / loadDB calls in flight
  installs, \* putDesignDocuments invocations since the database was created
  asserts,  \* how often console.assert(!this.hasDB) has failed
  opened,   \* the PouchDB objects getDB has resolved to since _db was null
  tmp,      \* the temporary database '_tmpdb' of loadDB
  load      \* what the loadDB call in flight has done so far

vars == <<store, design, nextId, upd, del, rem, sweep, last,
          conns, _db, tasks, installs, asserts, opened, tmp, load>>

storeVars == <<store, design, nextId, upd, del, rem, sweep>>

connVars == <<conns, _db, tasks, installs, asserts, opened, tmp, load>>

\* ---------------------------------------------------------------- views
\* collation of strings on the matches of the model
StrLess(a, b) ==
  \E i, j \in DOMAIN MatchOrder : MatchOrder[i] = a /\ MatchOrder[j] = b /\ i < j

\* collation of the second key component: numbers before objects
ElemLess(a, b) ==
  IF a[1] # b[1] THEN a[1] = "number"
  ELSE a[2] < b[2]

\* CouchDB collation of the array keys [match] and [match, date]
KeyLess(k1, k2) ==
  IF k1[1] # k2[1] THEN StrLess(k1[1], k2[1])
  ELSE IF Len(k1) = 1 THEN Len(k2) = 2
  ELSE IF Len(k2) = 1 THEN FALSE
  ELSE ElemLess(k1[2], k2[2])

KeyLeq(k1, k2) == k1 = k2 \/ KeyLess(k1, k2)

\* map of match_date_view: the rows (key, id) emitted for the documents of st
MatchDateRows(st) ==
  {<<st[i].match, Num(st[i].date), i>> :
     i \in {j \in DOMAIN st : st[j].match # ""}}

\* a map that emits +1 for either verb
SumMapWrong(doc) ==
  IF doc.verb \in {"create", "delete"} THEN 1 ELSE 0

\* map of sum_view: the value emitted for a document, 0 for none
SumMap(doc) ==
  CASE doc.verb = "create" -> 1
    [] doc.verb = "delete" -> -1
    [] OTHER -> 0

\* the documents of st for which the map of sum_view emits a row with key m
SumEmitters(st, m) ==
  {i \in DOMAIN st : st[i].verb \in {"create", "delete"} /\ st[i].match = m}

\* reduce "_sum" over the values emitted by the documents S
RECURSIVE ReduceSum(_, _)
ReduceSum(st, S) ==
  IF S = {} THEN 0
  ELSE LET i == CHOOSE j \in S : TRUE
       IN  SumMap(st[i]) + ReduceSum(st, S \ {i})

\* db.query(sum_view, {key: match}): the rows of the reduced view
SumQueryKey(st, m) ==
  IF SumEmitters(st, m) = {} THEN <<>>
  ELSE <<[key |-> m, value |-> ReduceSum(st, SumEmitters(st, m))]>>

getMatchingSum(st, m) ==
  LET rows == SumQueryKey(st, m)
  IN  IF Len(rows) = 0 THEN 0 ELSE rows[1].value

\* db.query(sum_view, {group: true, group_level: 1}): one row per key
getSums(st) ==
  {[key |-> m, value |-> ReduceSum(st, SumEmitters(st, m))] :
     m \in {k \in Matches : SumEmitters(st, k) # {}}}


\* ------------------------------------------------- getMatchingDocuments
\* the rows from startkey on, whatever endkey is
RowsInRangeOpen(st, startkey, endkey, descending) ==
  {r \in MatchDateRows(st) :
     LET k == <<r[1], r[2]>>
     IN  IF descending THEN KeyLeq(k, startkey) ELSE KeyLeq(startkey, k)}

\* the rows of match_date_view between startkey and endkey (inclusive)
RowsInRange(st, startkey, endkey, descending) ==
  {r \in MatchDateRows(st) :
     LET k == <<r[1], r[2]>>
     IN  IF descending
         THEN KeyLeq(endkey, k) /\ KeyLeq(k, startkey)
         ELSE KeyLeq(startkey, k) /\ KeyLeq(k, endkey)}

\* view order of two rows: by key, rows of equal key by document id
RowLess(r1, r2) ==
  \/ KeyLess(<<r1[1], r1[2]>>, <<r2[1], r2[2]>>)
  \/ (r1[1] = r2[1] /\ r1[2] = r2[2] /\ r1[3] < r2[3])

RECURSIVE SortRows(_)
SortRows(R) ==
  IF R = {} THEN <<>>
  ELSE LET f == CHOOSE r \in R : \A q \in R \ {r} : RowLess(r, q)
       IN  <<f>> \o SortRows(R \ {f})

Reverse(s) == [i \in 1..Len(s) |-> s[Len(s) + 1 - i]]

\* options.limit of getMatchingDocuments is not a number
NoLimit == -1

\* the first n elements of s (all of s when limit is not a number)
Limit(s, limit) ==
  IF limit = NoLimit \/ limit >= Len(s) THEN s ELSE SubSeq(s, 1, limit)

SelectIds(s, keep) == SelectSeq(s, LAMBDA i : i \in keep)

\* db.query(match_date_view, qo): ids of the row documents, in row order
MatchDateQuery(st, startkey, endkey, descending, limit) ==
  LET asc  == SortRows(RowsInRange(st, startkey, endkey, descending))
      rows == IF descending THEN Reverse(asc) ELSE asc
      cut  == Limit(rows, limit)
  IN  [i \in 1..Len(cut) |-> cut[i][3]]

\* an exclusion that forgets the corresponding `create` documents
ExcludedIdsDeleteOnly(st, docs) ==
  {docs[i] : i \in {j \in 1..Len(docs) : st[docs[j]].verb = VERB.DELETE}}

\* ids removed by excludeDeletedDocs: for each `delete` document of docs its
\* corresponding `create` document and the `delete` document itself
ExcludedIds(st, docs) ==
  LET dels == {docs[i] : i \in {j \in 1..Len(docs) : st[docs[j]].verb = VERB.DELETE}}
  IN  {st[d].correspondingDocumentId : d \in dels} \cup dels

\* getMatchingDocuments(match, {descending, limit, verbs, excludeDeletedDocs}):
\* the ids of the returned documents, in order (verbs: Undefined or a set)
getMatchingDocuments(st, match, descending, limit, verbs, excludeDeletedDocs) ==
  LET startkey == IF ~descending THEN <<match>> ELSE <<match, TopKey>>
      endkey   == IF ~descending THEN <<match, TopKey>> ELSE <<match>>
      docs     == MatchDateQuery(st, startkey, endkey, descending, limit)
      docs2    == IF excludeDeletedDocs
                  THEN SelectIds(docs, DOMAIN st \ ExcludedIds(st, docs))
                  ELSE docs
  IN  IF verbs # Undefined
      THEN SelectIds(docs2, {i \in DOMAIN st : st[i].verb \in verbs})
      ELSE docs2

SeqRange(s) == {s[i] : i \in 1..Len(s)}


\* ------------------------------------------------------------ documents
\* major version of the extension manifest (chrome.runtime.getManifest())
ManifestMajorVersion == 4

Dates == {1, 2}

ClassNames == {"red", "blue"}

Titles == {Undefined, "page"}

\* the document putCreateDocument builds, as stored with its first revision
CreateDoc(match, className, title, date) ==
  [verb |-> VERB.CREATE, match |-> match, range |-> "xrange",
   className |-> className, text |-> "text", date |-> date,
   v |-> ManifestMajorVersion,
   title |-> IF title # Undefined THEN title ELSE Undefined,
   correspondingDocumentId |-> NoId, _rev |-> 1]

\* a `delete` document that does not copy the match of its `create` document
DeleteDocFixedMatch(correspondingDoc, createDocId, date) ==
  [verb |-> VERB.DELETE, match |-> MatchOrder[1], range |-> Undefined,
   className |-> Undefined, text |-> Undefined, date |-> date,
   v |-> Undefined, title |-> Undefined,
   correspondingDocumentId |-> createDocId, _rev |-> 1]

\* the document postDeleteDocument builds, as stored with its first revision
DeleteDoc(correspondingDoc, createDocId, date) ==
  [verb |-> VERB.DELETE, match |-> correspondingDoc.match, range |-> Undefined,
   className |-> Undefined, text |-> Undefined, date |-> date,
   v |-> Undefined, title |-> Undefined,
   correspondingDocumentId |-> createDocId, _rev |-> 1]

\* the store with document id written as doc
Put(st, id, doc) ==
  [i \in DOMAIN st \cup {id} |-> IF i = id THEN doc ELSE st[i]]

\* the store without the documents of S
Without(st, S) == [i \in DOMAIN st \ S |-> st[i]]

\* ids kept for the db.post() of the postDeleteDocument call in flight
Reserved == IF del.pc = "post" THEN 1 ELSE 0

\* ids that have been handed out so far
Known == 1..(nextId - 1)

Idle == [pc |-> "idle"]

\* the callers that can have an updateCreateDocument call in flight
Updaters == 1..MaxTasks

\* options.rev of updateCreateDocument is not a string
NoRev == 0

\* options.rev of updateCreateDocument: not given, or a revision
Revs == {NoRev} \cup (1..MaxRev)

Step == [op |-> "step"]

SweepIdle == [pc |-> "idle", pending |-> {}, reads |-> {}, snap |-> <<>>,
              clean |-> TRUE, failed |-> {}]

\* a write of another call while removeAllSuperfluousDocuments is in flight
\* (snap, the store as getSums saw it, is kept for undisturbed runs only)
Interfered(sw) ==
  IF sw.pc = "idle" THEN sw ELSE [sw EXCEPT !.clean = FALSE, !.snap = <<>>]

\* ---------------------------------------------------- putCreateDocument
putCreateDocument(match, className, title, date) ==
  /\ nextId + Reserved <= MaxDocs
  /\ store' = Put(store, nextId, CreateDoc(match, className, title, date))
  /\ nextId' = nextId + 1
  /\ sweep' = Interfered(sweep)
  /\ last' = [op |-> "create", ok |-> TRUE]
  /\ UNCHANGED <<design, upd, del, rem>>
  /\ UNCHANGED connVars

\* ------------------------------------------------- updateCreateDocument
\* a verb test that lets every document pass
CorrectVerbAny(doc) == TRUE

\* verify its the correct type: the verb test of updateCreateDocument and
\* of postDeleteDocument
CorrectVerb(doc) == doc.verb = VERB.CREATE

\* a comparison that never finds the values unchanged
UnchangedValuesNever(doc, className, title) == FALSE

\* change required? (the test that leads to the fake success)
UnchangedValues(doc, className, title) ==
  className = doc.className /\ title = doc.title

\* the documents db.get(docId, {rev}) can resolve to, doc being the winning
\* revision: doc itself without rev or with its _rev, an older revision (its
\* className is that of some earlier put) for a smaller rev, none for a
\* revision that does not exist
GetRevision(doc, rev) ==
  IF rev = NoRev \/ rev = doc._rev THEN {doc}
  ELSE IF rev < doc._rev
  THEN {[doc EXCEPT !.className = c, !._rev = rev] : c \in ClassNames}
  ELSE {}

\* the revision asked for is an old one: with DB.OPTIONS.auto_compaction its
\* body may have been discarded, and db.get then rejects
Compacted(doc, rev) == rev # NoRev /\ rev < doc._rev

\* a merge that stamps the document with a new date as well
MergedWithDate(doc, className, title) ==
  [doc EXCEPT !.className = IF Truthy(className) THEN className ELSE @,
              !.title = IF Truthy(title) THEN title ELSE @,
              !.date = @ + 1]

\* className and title as the callback merges them into doc
Merged(doc, className, title) ==
  [doc EXCEPT !.className = IF Truthy(className) THEN className ELSE @,
              !.title = IF Truthy(title) THEN title ELSE @]

\* the callback of getDocument in the call of caller u: verb check,
\* short-circuit, merge
UpdateGetBy(u, docId, className, title, rev) ==
  /\ upd[u].pc = "idle"
  /\ docId \in Known
  /\ IF docId \notin DOMAIN store
     THEN /\ last' = [op |-> "update", ok |-> FALSE, err |-> "missing",
                      id |-> docId]
          /\ upd' = upd
     ELSE \/ /\ GetRevision(store[docId], rev) = {} \/ Compacted(store[docId], rev)
             /\ last' = [op |-> "update", ok |-> FALSE, err |-> "missing",
                         id |-> docId]
             /\ upd' = upd
          \/ \E doc \in GetRevision(store[docId], rev) :
               IF ~CorrectVerb(doc)
               THEN /\ last' = [op |-> "update", ok |-> FALSE,
                                err |-> "incorrect verb", id |-> docId]
                    /\ upd' = upd
               ELSE IF UnchangedValues(doc, className, title)
               THEN /\ last' = [op |-> "update", ok |-> TRUE, wrote |-> FALSE,
                                id |-> docId, rev |-> doc._rev]
                    /\ upd' = upd
               ELSE /\ doc._rev < MaxRev
                    /\ upd' = [upd EXCEPT ![u] =
                                 [pc |-> "put", id |-> docId,
                                  doc |-> Merged(doc, className, title)]]
                    /\ last' = Step
  /\ UNCHANGED <<store, design, nextId, del, rem, sweep>>
  /\ UNCHANGED connVars

\* a database that accepts every write, whatever revision it is based on
ConflictNever(st, id, rev) == FALSE

\* db.put and db.bulkDocs answer a document with a conflict unless its _rev
\* is the revision that is stored
Conflict(st, id, rev) == ~(id \in DOMAIN st /\ st[id]._rev = rev)

\* db.put(doc) of putDB in the call of caller u
UpdatePutBy(u) ==
  /\ upd[u].pc = "put"
  /\ IF ~Conflict(store, upd[u].id, upd[u].doc._rev)
     THEN /\ store' = Put(store, upd[u].id, [upd[u].doc EXCEPT !._rev = @ + 1])
          /\ last' = [op |-> "update", ok |-> TRUE, wrote |-> TRUE,
                      id |-> upd[u].id, rev |-> upd[u].doc._rev + 1]
     ELSE /\ store' = store
          /\ last' = [op |-> "update", ok |-> FALSE, err |-> "conflict",
                      id |-> upd[u].id]
  /\ upd' = [upd EXCEPT ![u] = Idle]
  /\ sweep' = Interfered(sweep)
  /\ UNCHANGED <<design, nextId, del, rem>>
  /\ UNCHANGED connVars

\* updateCreateDocument as the first caller runs it
UpdateGet(docId, className, title, rev) ==
  UpdateGetBy(1, docId, className, title, rev)

UpdatePut == UpdatePutBy(1)

\* --------------------------------------------------- postDeleteDocument
\* the callback of getDocument: verb check, the `delete` document is built
DeleteGet(createDocId, date) ==
  /\ del.pc = "idle"
  /\ createDocId \in Known
  /\ IF createDocId \notin DOMAIN store
     THEN /\ last' = [op |-> "delete", ok |-> FALSE, err |-> "missing",
                      id |-> createDocId]
          /\ del' = del
     ELSE IF ~CorrectVerb(store[createDocId])
     THEN /\ last' = [op |-> "delete", ok |-> FALSE,
                      err |-> "incorrect corresponding verb",
                      id |-> createDocId]
          /\ del' = del
     ELSE /\ nextId <= MaxDocs
          /\ del' = [pc |-> "post", id |-> createDocId,
                     doc |-> DeleteDoc(store[createDocId], createDocId, date)]
          /\ last' = Step
  /\ UNCHANGED <<store, design, nextId, upd, rem, sweep>>
  /\ UNCHANGED connVars

\* db.post(doc) of postDB: the document is stored under a new id
DeletePost ==
  /\ del.pc = "post"
  /\ nextId <= MaxDocs
  /\ store' = Put(store, nextId, del.doc)
  /\ nextId' = nextId + 1
  /\ last' = [op |-> "delete", ok |-> TRUE, id |-> del.id, newId |-> nextId]
  /\ del' = Idle
  /\ sweep' = Interfered(sweep)
  /\ UNCHANGED <<design, upd, rem>>
  /\ UNCHANGED connVars


\* ---------------------------------------------- removeMatchingDocuments
\* the documents getMatchingDocuments(match) resolves to, as (id, _rev)
ReadMatching(st, match) ==
  {<<i, st[i]._rev>> :
     i \in SeqRange(getMatchingDocuments(st, match, FALSE, NoLimit,
                                         Undefined, FALSE))}

\* a bulk write that is only made while the net count of the match is zero
BulkDeletedWhileZero(st, docs) ==
  {d[1] : d \in {e \in docs : /\ ~Conflict(st, e[1], e[2])
                              /\ getMatchingSum(st, st[e[1]].match) = 0}}

\* ids that db.bulkDocs(docs) deletes: the documents flagged _deleted whose
\* _rev is the stored revision (the others are answered with a conflict)
BulkDeleted(st, docs) ==
  {d[1] : d \in {e \in docs : ~Conflict(st, e[1], e[2])}}

RemoveQuery(match) ==
  /\ rem.pc = "idle"
  /\ rem' = [pc |-> "bulk", match |-> match, docs |-> ReadMatching(store, match)]
  /\ last' = Step
  /\ UNCHANGED <<store, design, nextId, upd, del, sweep>>
  /\ UNCHANGED connVars

RemoveBulk ==
  /\ rem.pc = "bulk"
  /\ store' = Without(store, BulkDeleted(store, rem.docs))
  /\ last' = [op |-> "remove", ok |-> TRUE]
  /\ rem' = Idle
  /\ sweep' = Interfered(sweep)
  /\ UNCHANGED <<design, nextId, upd, del>>
  /\ UNCHANGED connVars

\* ---------------------------------------- removeAllSuperfluousDocuments
\* a sweep without the filter
ZeroSumAny(st) == {r.key : r \in getSums(st)}

\* the keys of the rows of getSums() that pass the filter value === 0
ZeroSum(st) == {r.key : r \in {q \in getSums(st) : q.value = 0}}

\* the last bulk write of a run has removed nothing
NoRemoval == [match |-> "", ids |-> {}, sum |-> 0, live |-> {}]

\* what the bulk write for match removes from st: the ids, the net count of
\* the match at that time, and the `create` documents among them that no
\* stored `delete` document refers to
Removal(st, match, ids) ==
  [match |-> match, ids |-> ids, sum |-> getMatchingSum(st, match),
   live |-> {i \in ids :
               /\ st[i].verb = VERB.CREATE
               /\ ~ \E d \in DOMAIN st :
                      /\ st[d].verb = VERB.DELETE
                      /\ st[d].correspondingDocumentId = i}]

\* the callback of getSums: removeMatchingDocuments is started for each key
SweepSums ==
  /\ sweep.pc = "idle"
  /\ IF ZeroSum(store) = {}
     THEN /\ sweep' = sweep
          /\ last' = [op |-> "sweep", ok |-> TRUE, snap |-> store,
                      clean |-> TRUE, zero |-> {}, failed |-> {},
                      removal |-> NoRemoval]
     ELSE /\ sweep' = [pc |-> "run", pending |-> ZeroSum(store), reads |-> {},
                       snap |-> store, clean |-> TRUE, failed |-> {}]
          /\ last' = Step
  /\ UNCHANGED <<store, design, nextId, upd, del, rem>>
  /\ UNCHANGED connVars

\* the callback of getMatchingDocuments in one removeMatchingDocuments
SweepQuery(match) ==
  /\ sweep.pc = "run"
  /\ match \in sweep.pending
  /\ sweep' = [sweep EXCEPT !.pending = @ \ {match},
                            !.reads = @ \cup {<<match, ReadMatching(store, match)>>}]
  /\ last' = Step
  /\ UNCHANGED <<store, design, nextId, upd, del, rem>>
  /\ UNCHANGED connVars

\* what the run reports once every removeMatchingDocuments it started has
\* settled (Promise.all resolves with the last of them, and rejects with the
\* first that fails)
SweepSettled(sw, failed, removal) ==
  [op |-> "sweep", ok |-> failed = {}, snap |-> sw.snap, clean |-> sw.clean,
   zero |-> ZeroSum(sw.snap), failed |-> failed, removal |-> removal]

\* db.bulkDocs of one removeMatchingDocuments
SweepBulk(match) ==
  /\ sweep.pc = "run"
  /\ \E r \in sweep.reads :
       /\ r[1] = match
       /\ store' = Without(store, BulkDeleted(store, r[2]))
       /\ IF sweep.pending = {} /\ sweep.reads = {r}
          THEN /\ sweep' = SweepIdle
               /\ last' = SweepSettled(sweep, sweep.failed,
                                       Removal(store, match,
                                               BulkDeleted(store, r[2])))
          ELSE /\ sweep' = [sweep EXCEPT !.reads = @ \ {r}]
               /\ last' = Step
  /\ UNCHANGED <<design, nextId, upd, del, rem>>
  /\ UNCHANGED connVars

\* a run that gives up the calls that have not read yet when one fails
StillRunningNone(pending, match) == {}

\* the removeMatchingDocuments calls that are still to read when the one for
\* match has failed: map() has started them all, none is cancelled
StillRunning(pending, match) == pending \ {match}

\* the query of getMatchingDocuments in one removeMatchingDocuments rejects
SweepQueryFail(match) ==
  /\ sweep.pc = "run"
  /\ match \in sweep.pending
  /\ IF StillRunning(sweep.pending, match) = {} /\ sweep.reads = {}
     THEN /\ sweep' = SweepIdle
          /\ last' = SweepSettled(sweep, sweep.failed \cup {match},
                                  NoRemoval)
     ELSE /\ sweep' = [sweep EXCEPT
                         !.pending = StillRunning(sweep.pending, match),
                         !.failed = @ \cup {match}]
          /\ last' = Step
  /\ UNCHANGED <<store, design, nextId, upd, del, rem>>
  /\ UNCHANGED connVars

\* db.bulkDocs of one removeMatchingDocuments rejects: nothing is written
SweepBulkFail(match) ==
  /\ sweep.pc = "run"
  /\ \E r \in sweep.reads :
       /\ r[1] = match
       /\ IF sweep.pending = {} /\ sweep.reads = {r}
          THEN /\ sweep' = SweepIdle
               /\ last' = SweepSettled(sweep, sweep.failed \cup {match},
                                       NoRemoval)
          ELSE /\ sweep' = [sweep EXCEPT !.reads = @ \ {r},
                                         !.failed = @ \cup {match}]
               /\ last' = Step
  /\ UNCHANGED <<store, design, nextId, upd, del, rem>>
  /\ UNCHANGED connVars


\* ----------------------------------------------------------- facade
\* names of the design documents putDesignDocuments writes
DesignDocs == {VIEW_NAME.MATCH_DATE, VIEW_NAME.SUM}

Tasks == 1..MaxTasks

TaskIdle == [op |-> "none", pc |-> "idle", conn |-> 0, ph |-> "none"]

\* no temporary database exists
NoTmp == [state |-> "none", docs |-> <<>>]

LoadIdle == [pc |-> "idle"]

\* the getDB of another caller installs the design documents or assigns
\* this._db while loadDB is in flight
Disturbed(ld, op) ==
  IF ld.pc = "run" /\ op # "load" THEN [ld EXCEPT !.quiet = FALSE] ELSE ld

\* hasDB
hasDB == _db # 0

\* info().doc_count of the main database
DocCount == Cardinality(DOMAIN store) + Cardinality(design)

SetTask(c, t) == [tasks EXCEPT ![c] = t]

\* ----------------------------------------------------------------- getDB
\* getDB() as called for operation op (phase ph of loadDB): the cached
\* object, or a new PouchDB whose info() is awaited
GetDBCall(c, op, ph) ==
  IF hasDB
  THEN /\ tasks' = SetTask(c, [op |-> op, pc |-> "ready", conn |-> _db, ph |-> ph])
       /\ conns' = conns
  ELSE /\ Len(conns) < MaxConns
       /\ conns' = Append(conns, "open")
       /\ tasks' = SetTask(c, [op |-> op, pc |-> "info", conn |-> Len(conns) + 1,
                               ph |-> ph])

\* a first callback that never puts the design documents
AfterInfoSkip(count) == "store"

\* the first callback of getDB: an empty database gets the design documents
AfterInfo(count) == IF count # 0 THEN "store" ELSE "install"

\* db.info() resolves; putDesignDocuments(db) is invoked for an empty database
GetDBInfo(c) ==
  /\ tasks[c].pc = "info"
  /\ tasks' = SetTask(c, [tasks[c] EXCEPT !.pc = AfterInfo(DocCount)])
  /\ installs' = IF AfterInfo(DocCount) = "install" THEN installs + 1 ELSE installs
  /\ last' = Step
  /\ UNCHANGED <<conns, _db, asserts, opened, tmp, load>>
  /\ UNCHANGED storeVars

\* pouchDB.bulkDocs(docs) of putDesignDocuments is written (a design
\* document that exists already is answered with a conflict and kept)
GetDBInstall(c) ==
  /\ tasks[c].pc = "install"
  /\ design' = DesignDocs
  /\ tasks' = SetTask(c, [tasks[c] EXCEPT !.pc = "store"])
  /\ load' = Disturbed(load, tasks[c].op)
  /\ last' = Step
  /\ UNCHANGED <<store, nextId, upd, del, rem, sweep>>
  /\ UNCHANGED <<conns, _db, installs, asserts, opened, tmp>>

\* the second callback of getDB: console.assert(!this.hasDB); this._db = db
GetDBStore(c) ==
  /\ tasks[c].pc = "store"
  /\ asserts' = IF hasDB THEN asserts + 1 ELSE asserts
  /\ _db' = tasks[c].conn
  /\ tasks' = SetTask(c, [tasks[c] EXCEPT !.pc = "ready"])
  /\ load' = Disturbed(load, tasks[c].op)
  /\ last' = Step
  /\ UNCHANGED <<conns, installs, opened, tmp>>
  /\ UNCHANGED storeVars

\* open(): getDB() is called
OpenCall(c) ==
  /\ tasks[c].pc = "idle"
  /\ GetDBCall(c, "open", "none")
  /\ last' = Step
  /\ UNCHANGED <<_db, installs, asserts, opened, tmp, load>>
  /\ UNCHANGED storeVars

\* the promise of getDB() resolves to the PouchDB object
OpenDone(c) ==
  /\ tasks[c].pc = "ready"
  /\ tasks[c].op = "open"
  /\ opened' = opened \cup {tasks[c].conn}
  /\ last' = [op |-> "getDB", ok |-> TRUE, conn |-> tasks[c].conn]
  /\ tasks' = SetTask(c, TaskIdle)
  /\ UNCHANGED <<conns, _db, installs, asserts, tmp, load>>
  /\ UNCHANGED storeVars

\* --------------------------------------------------------------- closeDB
CloseCall(c) ==
  /\ tasks[c].pc = "idle"
  /\ IF ~hasDB
     THEN /\ last' = [op |-> "close", ok |-> TRUE]
          /\ UNCHANGED <<tasks, conns>>
     ELSE /\ GetDBCall(c, "close", "none")
          /\ last' = Step
  /\ UNCHANGED <<_db, installs, asserts, opened, tmp, load>>
  /\ UNCHANGED storeVars

\* db.close(): the object is closed, this._db keeps it
CloseEffect(c) ==
  /\ tasks[c].pc = "ready"
  /\ tasks[c].op = "close"
  /\ conns' = [conns EXCEPT ![tasks[c].conn] = IF @ = "open" THEN "closed" ELSE @]
  /\ last' = [op |-> "close", ok |-> conns[tasks[c].conn] = "open"]
  /\ tasks' = SetTask(c, TaskIdle)
  /\ UNCHANGED <<_db, installs, asserts, opened, tmp, load>>
  /\ UNCHANGED storeVars

\* ------------------------------------------------------------- destroyDB
DestroyCall(c) ==
  /\ tasks[c].pc = "idle"
  /\ GetDBCall(c, "destroy", "none")
  /\ last' = Step
  /\ UNCHANGED <<_db, installs, asserts, opened, tmp, load>>
  /\ UNCHANGED storeVars

\* db.destroy(): every document of the database is gone; a closed or
\* destroyed object rejects instead
DestroyEffect(c) ==
  /\ tasks[c].pc = "ready"
  /\ tasks[c].op \in {"destroy", "load"}
  /\ tasks[c].op = "load" => tasks[c].ph = "destroy"
  /\ conns[tasks[c].conn] = "open"
  /\ store' = <<>>
  /\ design' = {}
  /\ installs' = 0
  /\ conns' = [conns EXCEPT ![tasks[c].conn] = "destroyed"]
  /\ tasks' = SetTask(c, [tasks[c] EXCEPT !.pc = "null"])
  /\ last' = Step
  /\ UNCHANGED <<nextId, upd, del, rem, sweep>>
  /\ UNCHANGED <<_db, asserts, opened, tmp, load>>

DestroyReject(c) ==
  /\ tasks[c].pc = "ready"
  /\ tasks[c].op = "destroy"
  /\ conns[tasks[c].conn] # "open"
  /\ last' = [op |-> "destroy", ok |-> FALSE]
  /\ tasks' = SetTask(c, TaskIdle)
  /\ UNCHANGED <<conns, _db, installs, asserts, opened, tmp, load>>
  /\ UNCHANGED storeVars

\* the last callback of destroyDB: this._db = null
DestroyNull(c) ==
  /\ tasks[c].pc = "null"
  /\ tasks[c].op = "destroy"
  /\ _db' = 0
  /\ opened' = {}
  /\ last' = [op |-> "destroy", ok |-> TRUE]
  /\ tasks' = SetTask(c, TaskIdle)
  /\ UNCHANGED <<conns, installs, asserts, tmp, load>>
  /\ UNCHANGED storeVars

\* --------------------------------------------------------------- queryDB
\* queryDB of getMatchingDocuments, getMatchingSum or getSums is called
QueryCall(c) ==
  /\ tasks[c].pc = "idle"
  /\ GetDBCall(c, "query", "none")
  /\ last' = Step
  /\ UNCHANGED <<_db, installs, asserts, opened, tmp, load>>
  /\ UNCHANGED storeVars

\* db.query(view): the rows are computed from the documents stored now; it
\* is rejected on a closed or destroyed object and without the design document
QueryEffect(c) ==
  /\ tasks[c].pc = "ready"
  /\ tasks[c].op = "query"
  /\ last' = [op |-> "query",
              ok |-> conns[tasks[c].conn] = "open" /\ design = DesignDocs]
  /\ tasks' = SetTask(c, TaskIdle)
  /\ UNCHANGED <<conns, _db, installs, asserts, opened, tmp, load>>
  /\ UNCHANGED storeVars

\* ---------------------------------------------------------------- loadDB
\* the documents of the store with those of docs replicated into it
Replicated(st, docs, S) ==
  [i \in DOMAIN st \cup S |-> IF i \in S THEN docs[i] ELSE st[i]]

\* loadDB(urlOrString): '_tmpdb' is constructed, tmpDB.load is started
LoadCall(c, payload) ==
  /\ tasks[c].pc = "idle"
  /\ load.pc = "idle"
  /\ tmp' = [state |-> "open", docs |-> <<>>]
  /\ tasks' = SetTask(c, [op |-> "load", pc |-> "loading", conn |-> 0,
                          ph |-> "load"])
  /\ load' = [pc |-> "run", pre |-> store, design0 |-> design, db0 |-> _db,
              payload |-> payload, failedAt |-> "none",
              destroyInvoked |-> FALSE, quiet |-> TRUE]
  /\ last' = Step
  /\ UNCHANGED <<conns, _db, installs, asserts, opened>>
  /\ UNCHANGED storeVars

\* tmpDB.load resolves: the first callback calls this.destroyDB()
LoadOk(c) ==
  /\ tasks[c].pc = "loading"
  /\ tmp' = [tmp EXCEPT !.docs = load.payload]
  /\ load' = [load EXCEPT !.destroyInvoked = TRUE]
  /\ GetDBCall(c, "load", "destroy")
  /\ last' = Step
  /\ UNCHANGED <<_db, installs, asserts, opened>>
  /\ UNCHANGED storeVars

\* a chain that runs the destroyDB callback for a rejected load as well
LoadFailThenDestroy(c) ==
  /\ tasks[c].pc = "loading"
  /\ load' = [load EXCEPT !.failedAt = "load", !.destroyInvoked = TRUE]
  /\ GetDBCall(c, "load", "destroy")
  /\ last' = Step
  /\ UNCHANGED <<_db, installs, asserts, opened, tmp>>
  /\ UNCHANGED storeVars

\* tmpDB.load rejects: the then-callbacks are skipped, the catch callback
\* calls tmpDB.destroy()
LoadFail(c) ==
  /\ tasks[c].pc = "loading"
  /\ load' = [load EXCEPT !.failedAt = "load"]
  /\ tasks' = SetTask(c, [tasks[c] EXCEPT !.pc = "cleanup"])
  /\ last' = Step
  /\ UNCHANGED <<conns, _db, installs, asserts, opened, tmp>>
  /\ UNCHANGED storeVars

\* db.info() of a getDB that loadDB awaits (in destroyDB, or in the getDB
\* after it) rejects: the catch callback calls tmpDB.destroy()
LoadOpenFail(c) ==
  /\ tasks[c].pc = "info"
  /\ tasks[c].op = "load"
  /\ load' = [load EXCEPT !.failedAt = tasks[c].ph]
  /\ tasks' = SetTask(c, [tasks[c] EXCEPT !.pc = "cleanup"])
  /\ last' = Step
  /\ UNCHANGED <<conns, _db, installs, asserts, opened, tmp>>
  /\ UNCHANGED storeVars

\* db.destroy() of destroyDB rejects: the catch callback calls tmpDB.destroy()
LoadDestroyFail(c) ==
  /\ tasks[c].pc = "ready"
  /\ tasks[c].op = "load"
  /\ tasks[c].ph = "destroy"
  /\ load' = [load EXCEPT !.failedAt = "destroy"]
  /\ tasks' = SetTask(c, [tasks[c] EXCEPT !.pc = "cleanup"])
  /\ last' = Step
  /\ UNCHANGED <<conns, _db, installs, asserts, opened, tmp>>
  /\ UNCHANGED storeVars

\* the last callback of destroyDB (this._db = null), then the callback that
\* calls this.getDB(): a new PouchDB is constructed
LoadDestroyNull(c) ==
  /\ tasks[c].pc = "null"
  /\ tasks[c].op = "load"
  /\ Len(conns) < MaxConns
  /\ _db' = 0
  /\ opened' = {}
  /\ conns' = Append(conns, "open")
  /\ tasks' = SetTask(c, [tasks[c] EXCEPT !.pc = "info", !.ph = "open",
                                          !.conn = Len(conns) + 1])
  /\ last' = Step
  /\ UNCHANGED <<installs, asserts, tmp, load>>
  /\ UNCHANGED storeVars

\* this.getDB() has resolved: tmpDB.replicate.to(db) is started
LoadReady(c) ==
  /\ tasks[c].pc = "ready"
  /\ tasks[c].op = "load"
  /\ tasks[c].ph = "open"
  /\ tasks' = SetTask(c, [tasks[c] EXCEPT !.pc = "replicate"])
  /\ last' = Step
  /\ UNCHANGED <<conns, _db, installs, asserts, opened, tmp, load>>
  /\ UNCHANGED storeVars

\* the replication writes some of the documents that are still missing
LoadReplicate(c) ==
  /\ tasks[c].pc = "replicate"
  /\ conns[tasks[c].conn] = "open"
  /\ \E S \in SUBSET (DOMAIN tmp.docs \ DOMAIN store) :
       /\ S # {}
       /\ store' = Replicated(store, tmp.docs, S)
  /\ last' = Step
  /\ UNCHANGED <<design, nextId, upd, del, rem, sweep>>
  /\ UNCHANGED connVars

\* the replication is complete: the callback calls tmpDB.destroy()
LoadReplicateDone(c) ==
  /\ tasks[c].pc = "replicate"
  /\ DOMAIN tmp.docs \subseteq DOMAIN store
  /\ tasks' = SetTask(c, [tasks[c] EXCEPT !.pc = "finish"])
  /\ last' = Step
  /\ UNCHANGED <<conns, _db, installs, asserts, opened, tmp, load>>
  /\ UNCHANGED storeVars

\* the replication rejects: the catch callback calls tmpDB.destroy()
LoadReplicateFail(c) ==
  /\ tasks[c].pc = "replicate"
  /\ load' = [load EXCEPT !.failedAt = "replicate"]
  /\ tasks' = SetTask(c, [tasks[c] EXCEPT !.pc = "cleanup"])
  /\ last' = Step
  /\ UNCHANGED <<conns, _db, installs, asserts, opened, tmp>>
  /\ UNCHANGED storeVars

\* tmpDB.destroy() of the last then-callback resolves: loadDB resolves
LoadFinish(c) ==
  /\ tasks[c].pc = "finish"
  /\ tmp' = [state |-> "destroyed", docs |-> <<>>]
  /\ last' = [op |-> "load", ok |-> TRUE, run |-> load, error |-> "none"]
  /\ load' = LoadIdle
  /\ tasks' = SetTask(c, TaskIdle)
  /\ UNCHANGED <<conns, _db, installs, asserts, opened>>
  /\ UNCHANGED storeVars

\* tmpDB.destroy() of the last then-callback rejects: the catch callback
\* calls tmpDB.destroy() once more
LoadFinishFail(c) ==
  /\ tasks[c].pc = "finish"
  /\ load' = [load EXCEPT !.failedAt = "cleanup"]
  /\ tasks' = SetTask(c, [tasks[c] EXCEPT !.pc = "cleanup"])
  /\ last' = Step
  /\ UNCHANGED <<conns, _db, installs, asserts, opened, tmp>>
  /\ UNCHANGED storeVars

\* tmpDB.destroy() of the catch callback rejects: `throw e` is not reached,
\* loadDB rejects with the error of that destroy and '_tmpdb' is kept
LoadCleanupFail(c) ==
  /\ tasks[c].pc = "cleanup"
  /\ last' = [op |-> "load", ok |-> FALSE, run |-> load, error |-> "tmpDestroy"]
  /\ load' = LoadIdle
  /\ tasks' = SetTask(c, TaskIdle)
  /\ UNCHANGED <<conns, _db, installs, asserts, opened, tmp>>
  /\ UNCHANGED storeVars

\* tmpDB.destroy() of the catch callback resolves: loadDB rejects with e
LoadCleanup(c) ==
  /\ tasks[c].pc = "cleanup"
  /\ tmp' = [state |-> "destroyed", docs |-> <<>>]
  /\ last' = [op |-> "load", ok |-> FALSE, run |-> load,
              error |-> load.failedAt]
  /\ load' = LoadIdle
  /\ tasks' = SetTask(c, TaskIdle)
  /\ UNCHANGED <<conns, _db, installs, asserts, opened>>
  /\ UNCHANGED storeVars

\* ------------------------------------------------------- specification
\* the database is open: the connection is cached, the views are installed
InitOpen ==
  /\ conns = <<"open">>
  /\ _db = 1
  /\ tasks = [c \in Tasks |-> TaskIdle]
  /\ installs = 1
  /\ asserts = 0
  /\ opened = {1}
  /\ tmp = NoTmp
  /\ load = LoadIdle

Init ==
  /\ store = <<>>
  /\ design = DesignDocs
  /\ nextId = 1
  /\ upd = [u \in Updaters |-> Idle]
  /\ del = Idle
  /\ rem = Idle
  /\ sweep = SweepIdle
  /\ last = Step
  /\ InitOpen

\* no call of the highlight API is in flight
Quiet ==
  /\ \A u \in Updaters : upd[u].pc = "idle"
  /\ del.pc = "idle"
  /\ rem.pc = "idle"
  /\ sweep.pc = "idle"

\* the calls of the highlight API, one after the other: a call starts when
\* the promise of the previous one has settled
Next ==
  \/ \E m \in Matches : Quiet /\ putCreateDocument(m, "red", "page", 1)
  \/ \E i \in Ids, c \in ClassNames : Quiet /\ UpdateGet(i, c, "page", NoRev)
  \/ UpdatePut
  \/ \E i \in Ids : Quiet /\ DeleteGet(i, 1)
  \/ DeletePost
  \/ \E m \in Matches : Quiet /\ RemoveQuery(m)
  \/ RemoveBulk
  \/ Quiet /\ SweepSums
  \/ \E m \in Matches : SweepQuery(m)
  \/ \E m \in Matches : SweepBulk(m)

Spec == Init /\ [][Next]_vars

\* createHighlight (with and without a title) for at most MaxDocs - 2
\* highlights and updateHighlight with every value of className, title and
\* options.rev, one call after the other
EditNext ==
  \/ \E m \in Matches, t \in Titles :
       Quiet /\ nextId + 2 <= MaxDocs /\ putCreateDocument(m, "red", t, 1)
  \/ \E i \in Ids, c \in ClassNames, t \in Titles, r \in Revs :
       Quiet /\ UpdateGet(i, c, t, r)
  \/ UpdatePut

EditSpec == Init /\ [][EditNext]_vars

\* createHighlight for at most MaxDocs - 3 highlights, then updateHighlight
\* (every className, title and options.rev) and deleteHighlight on every id,
\* the ids of `delete` documents included, one call after the other
VerbNext ==
  \/ \E m \in Matches, t \in Titles :
       Quiet /\ nextId + 3 <= MaxDocs /\ putCreateDocument(m, "red", t, 1)
  \/ \E i \in Ids, c \in ClassNames, t \in Titles, r \in Revs :
       Quiet /\ UpdateGet(i, c, t, r)
  \/ UpdatePut
  \/ \E i \in Ids : Quiet /\ DeleteGet(i, 2)
  \/ DeletePost

VerbSpec == Init /\ [][VerbNext]_vars

\* updateHighlight calls of several callers and removeAllForMatch on at most
\* MaxDocs - 3 highlights, with their steps interleaved
ConflictNext ==
  \/ \E m \in Matches :
       Quiet /\ nextId + 3 <= MaxDocs /\ putCreateDocument(m, "red", "page", 1)
  \/ \E u \in Updaters, i \in Ids, c \in ClassNames, t \in Titles :
       UpdateGetBy(u, i, c, t, NoRev)
  \/ \E u \in Updaters : UpdatePutBy(u)
  \/ \E m \in Matches : RemoveQuery(m)
  \/ RemoveBulk

ConflictSpec == Init /\ [][ConflictNext]_vars

\* createHighlight, deleteHighlight, removeAllForMatch and sweepSuperfluous
\* with their steps interleaved: a call starts whether or not the promises
\* of the others have settled
RaceNext ==
  \/ \E m \in Matches : putCreateDocument(m, "red", "page", 1)
  \/ \E i \in Ids : DeleteGet(i, 1)
  \/ DeletePost
  \/ \E m \in Matches : RemoveQuery(m)
  \/ RemoveBulk
  \/ SweepSums
  \/ \E m \in Matches : SweepQuery(m)
  \/ \E m \in Matches : SweepBulk(m)

RaceSpec == Init /\ [][RaceNext]_vars

\* a database with one highlight, and a dump of another database
StoreA == <<CreateDoc("a.com/", "red", "page", 1)>>

PayloadB == [i \in {2, 3} |-> CreateDoc("a.com/p", "blue", "page", i - 1)]

\* a DB object has been constructed; the database is new or holds StoreA
InitFacade ==
  /\ \/ store = <<>> /\ design = {} /\ installs = 0
     \/ store = StoreA /\ design = DesignDocs /\ installs = 1
  /\ nextId = MaxDocs + 1
  /\ upd = [u \in Updaters |-> Idle]
  /\ del = Idle
  /\ rem = Idle
  /\ sweep = SweepIdle
  /\ last = Step
  /\ conns = <<>>
  /\ _db = 0
  /\ tasks = [c \in Tasks |-> TaskIdle]
  /\ asserts = 0
  /\ opened = {}
  /\ tmp = NoTmp
  /\ load = LoadIdle

\* open, close and destroy calls of concurrent callers
ConnNext ==
  \/ \E c \in Tasks : OpenCall(c)
  \/ \E c \in Tasks : GetDBInfo(c)
  \/ \E c \in Tasks : GetDBInstall(c)
  \/ \E c \in Tasks : GetDBStore(c)
  \/ \E c \in Tasks : OpenDone(c)
  \/ \E c \in Tasks : CloseCall(c)
  \/ \E c \in Tasks : CloseEffect(c)
  \/ \E c \in Tasks : DestroyCall(c)
  \/ \E c \in Tasks : DestroyEffect(c)
  \/ \E c \in Tasks : DestroyReject(c)
  \/ \E c \in Tasks : DestroyNull(c)

ConnSpec == InitFacade /\ [][ConnNext]_vars

\* the promise of every call has settled
Settled == \A c \in Tasks : tasks[c].pc = "idle"

\* open, close and destroy calls one after the other: a call starts when
\* the promise of the previous one has settled
SeqConnNext ==
  \/ \E c \in Tasks : Settled /\ OpenCall(c)
  \/ \E c \in Tasks : GetDBInfo(c)
  \/ \E c \in Tasks : GetDBInstall(c)
  \/ \E c \in Tasks : GetDBStore(c)
  \/ \E c \in Tasks : OpenDone(c)
  \/ \E c \in Tasks : Settled /\ CloseCall(c)
  \/ \E c \in Tasks : CloseEffect(c)
  \/ \E c \in Tasks : Settled /\ DestroyCall(c)
  \/ \E c \in Tasks : DestroyEffect(c)
  \/ \E c \in Tasks : DestroyReject(c)
  \/ \E c \in Tasks : DestroyNull(c)

SeqConnSpec == InitFacade /\ [][SeqConnNext]_vars

\* loadDB (called by the first caller; the callers are interchangeable)
\* with concurrent queries and getDB calls
LoadNext ==
  \/ \E p \in {StoreA, PayloadB} : LoadCall(1, p)
  \/ \E c \in Tasks : LoadOk(c)
  \/ \E c \in Tasks : LoadFail(c)
  \/ \E c \in Tasks : DestroyEffect(c)
  \/ \E c \in Tasks : LoadDestroyNull(c)
  \/ \E c \in Tasks : GetDBInfo(c)
  \/ \E c \in Tasks : GetDBInstall(c)
  \/ \E c \in Tasks : GetDBStore(c)
  \/ \E c \in Tasks : LoadReady(c)
  \/ \E c \in Tasks : LoadReplicate(c)
  \/ \E c \in Tasks : LoadReplicateDone(c)
  \/ \E c \in Tasks : LoadReplicateFail(c)
  \/ \E c \in Tasks : LoadFinish(c)
  \/ \E c \in Tasks : LoadCleanup(c)
  \/ \E c \in Tasks : LoadOpenFail(c)
  \/ \E c \in Tasks : LoadDestroyFail(c)
  \/ \E c \in Tasks : LoadFinishFail(c)
  \/ \E c \in Tasks : LoadCleanupFail(c)
  \/ \E c \in Tasks : QueryCall(c)
  \/ \E c \in Tasks : QueryEffect(c)

LoadSpec == InitFacade /\ [][LoadNext]_vars

\* ---------------------------------------------------------------- putDB
\* document ids putDB is called with
PutIds == 1..(MaxDocs - 2)

\* an id or revision is given (a truthy value)
Given(x) == x # 0

\* the documents putDB is called with: _id and _rev may be missing
PutDocs == [_id : {NoId} \cup PutIds, _rev : Revs]

\* a putDB that assigns the overrides to the caller's object
putDBInPlace(doc, id, rev) ==
  LET d == [doc EXCEPT !._id = IF Given(id) THEN id ELSE @,
                       !._rev = IF Given(rev) THEN rev ELSE @]
  IN  [thrown |-> ~Given(d._id), put |-> d, doc |-> d]

\* the callback of putDB: what is thrown, the document handed to db.put,
\* and the caller's object afterwards
putDB(doc, id, rev) ==
  IF ~Given(id) /\ ~Given(rev)
  THEN [thrown |-> ~Given(doc._id), put |-> doc, doc |-> doc]
  ELSE LET d == [doc EXCEPT !._id = IF Given(id) THEN id ELSE @,
                            !._rev = IF Given(rev) THEN rev ELSE @]
       IN  [thrown |-> ~Given(d._id), put |-> d, doc |-> doc]

\* db.put(d) answers a conflict unless d._rev is the stored revision, or the
\* document is new and d carries no revision
PutConflict(st, d) ==
  IF d._id \in DOMAIN st THEN Conflict(st, d._id, d._rev) ELSE d._rev # NoRev

\* putDB(doc, {id, rev}) is called by caller c: getDB() resolves to the
\* cached object
PutDBCall(c, doc, id, rev) ==
  /\ hasDB
  /\ tasks[c].pc = "idle"
  /\ LET r == putDB(doc, id, rev)
     IN  ~(/\ ~r.thrown
           /\ r.put._id \in DOMAIN store
           /\ store[r.put._id]._rev >= MaxRev)
  /\ tasks' = SetTask(c, [op |-> "put", pc |-> "ready", conn |-> _db,
                          ph |-> "none", doc |-> doc, id |-> id, rev |-> rev])
  /\ last' = Step
  /\ UNCHANGED <<conns, _db, installs, asserts, opened, tmp, load>>
  /\ UNCHANGED storeVars

\* the callback of putDB runs: the id check, then db.put
PutDBWrite(c) ==
  /\ tasks[c].op = "put"
  /\ tasks[c].pc = "ready"
  /\ LET r == putDB(tasks[c].doc, tasks[c].id, tasks[c].rev)
     IN  IF r.thrown
         THEN /\ store' = store
              /\ last' = [op |-> "putDB", ok |-> FALSE,
                          err |-> "undefined document id", id |-> NoId,
                          doc |-> r.doc]
         ELSE IF PutConflict(store, r.put)
         THEN /\ store' = store
              /\ last' = [op |-> "putDB", ok |-> FALSE, err |-> "conflict",
                          id |-> r.put._id, doc |-> r.doc]
         ELSE /\ store' = Put(store, r.put._id,
                              [CreateDoc(MatchOrder[1], "red", "page", 1)
                                 EXCEPT !._rev = r.put._rev + 1])
              /\ last' = [op |-> "putDB", ok |-> TRUE, err |-> "none",
                          id |-> r.put._id, doc |-> r.doc]
  /\ tasks' = SetTask(c, TaskIdle)
  /\ UNCHANGED <<design, nextId, upd, del, rem, sweep>>
  /\ UNCHANGED <<conns, _db, installs, asserts, opened, tmp, load>>

\* putDB called with every document and every pair of overrides, one call
\* after the other
PutNext ==
  \/ \E doc \in PutDocs, id \in {NoId} \cup PutIds, rev \in Revs :
       PutDBCall(1, doc, id, rev)
  \/ PutDBWrite(1)

PutSpec == Init /\ [][PutNext]_vars

\* createHighlight, deleteHighlight and sweepSuperfluous one after the
\* other, where the query or the bulk write of any removeMatchingDocuments
\* of a sweep may fail
SweepFailNext ==
  \/ \E m \in Matches : Quiet /\ putCreateDocument(m, "red", "page", 1)
  \/ \E i \in Ids : Quiet /\ DeleteGet(i, 1)
  \/ DeletePost
  \/ Quiet /\ SweepSums
  \/ \E m \in Matches : SweepQuery(m)
  \/ \E m \in Matches : SweepBulk(m)
  \/ \E m \in Matches : SweepQueryFail(m)
  \/ \E m \in Matches : SweepBulkFail(m)

SweepFailSpec == Init /\ [][SweepFailNext]_vars

\* ---------------------------------------------------------------- dumpDB
\* DB.DESIGN_VIEW_PREFIX
DESIGN_VIEW_PREFIX == "_design"

\* the _id of an event document (a UUID) and of a design document
\* (`_design/<view name>`), as the part before the first `/` and the rest
EventDocId(i) == <<"uuid", i>>

DesignDocId(name) == <<DESIGN_VIEW_PREFIX, name>>

\* a dump without the filter
DumpFilterNone(_id) == TRUE

\* the filter of db.dump: !(_id.match(/^_design\//))
DumpFilter(_id) == ~(_id[1] = DESIGN_VIEW_PREFIX)

\* what db.dump writes to the stream: the event documents and the design
\* documents that pass the filter
Dump(st, dsg) ==
  [docs |-> [i \in {k \in DOMAIN st : DumpFilter(EventDocId(k))} |-> st[i]],
   design |-> {n \in dsg : DumpFilter(DesignDocId(n))}]

\* dumpDB(stream): getDB() is called
DumpCall(c) ==
  /\ tasks[c].pc = "idle"
  /\ GetDBCall(c, "dump", "none")
  /\ last' = Step
  /\ UNCHANGED <<_db, installs, asserts, opened, tmp, load>>
  /\ UNCHANGED storeVars

\* db.dump(stream, {filter}) resolves
DumpEffect(c) ==
  /\ tasks[c].pc = "ready"
  /\ tasks[c].op = "dump"
  /\ conns[tasks[c].conn] = "open"
  /\ last' = [op |-> "dump", ok |-> TRUE, payload |-> Dump(store, design)]
  /\ tasks' = SetTask(c, TaskIdle)
  /\ UNCHANGED <<conns, _db, installs, asserts, opened, tmp, load>>
  /\ UNCHANGED storeVars

\* createHighlight and deleteHighlight, then dumpDB, and loadDB of what the
\* dump has just written, one call after the other
RoundNext ==
  \/ \E m \in Matches :
       Quiet /\ Settled /\ putCreateDocument(m, "red", "page", 1)
  \/ \E i \in Ids : Quiet /\ Settled /\ DeleteGet(i, 1)
  \/ DeletePost
  \/ Quiet /\ Settled /\ DumpCall(1)
  \/ DumpEffect(1)
  \/ last.op = "dump" /\ LoadCall(1, last.payload.docs)
  \/ LoadOk(1)
  \/ DestroyEffect(1)
  \/ LoadDestroyNull(1)
  \/ GetDBInfo(1)
  \/ GetDBInstall(1)
  \/ GetDBStore(1)
  \/ LoadReady(1)
  \/ LoadReplicate(1)
  \/ LoadReplicateDone(1)
  \/ LoadFinish(1)

RoundSpec == Init /\ [][RoundNext]_vars

\* --------------------------------------------------------- sortDocuments
\* a string value
Str(s) == <<"string", s>>

\* values.get(_id) of a document whose comparator promise was rejected
NoValue == <<"undefined", 0>>

\* the values the comparator resolves to: numbers (dates) or strings
SortKeys == {{Num(1), Num(5)}, {Str(MatchOrder[1]), Str(MatchOrder[2])}}

\* the arrays sortDocuments is called with: up to MaxSort documents with
\* distinct _id, each with the value its comparator promise resolves to
SortInputs ==
  UNION {[1..n -> K] : n \in 0..MaxSort, K \in SortKeys}

\* values.get(id)
MapGet(values, id) == IF id \in DOMAIN values THEN values[id] ELSE NoValue

\* v1.localeCompare(v2)
LocaleCompare(s1, s2) ==
  IF StrLess(s1, s2) THEN -1 ELSE IF StrLess(s2, s1) THEN 1 ELSE 0

\* the compare function handed to sort()
SortCompare(v1, v2) ==
  IF v1 = NoValue THEN (IF v2 = NoValue THEN 0 ELSE -1)
  ELSE IF v2 = NoValue THEN (IF v1 = NoValue THEN 0 ELSE 1)
  ELSE IF v1[1] = "string" THEN LocaleCompare(v1[2], v2[2])
  ELSE v1[2] - v2[2]

\* x inserted into the sorted sequence s behind the elements that do not
\* compare greater (Array.prototype.sort is stable)
RECURSIVE SortInsert(_, _, _)
SortInsert(s, x, values) ==
  IF s = <<>> THEN <<x>>
  ELSE IF SortCompare(MapGet(values, Head(s)), MapGet(values, x)) > 0
  THEN <<x>> \o s
  ELSE <<Head(s)>> \o SortInsert(Tail(s), x, values)

\* ids.slice().sort(compare), for the array of the _id of the documents
RECURSIVE SortIds(_, _)
SortIds(ids, values) ==
  IF ids = <<>> THEN <<>>
  ELSE SortInsert(SortIds(SubSeq(ids, 1, Len(ids) - 1), values),
                  ids[Len(ids)], values)

\* sortDocuments(docs, comparator) is called: comparator(doc) is invoked for
\* every document (document i of the array has _id i)
SortCall(c, docs) ==
  /\ tasks[c].pc = "idle"
  /\ tasks' = SetTask(c, [op |-> "sort", pc |-> "keys", conn |-> 0,
                          ph |-> "none", docs |-> docs, values |-> <<>>,
                          waiting |-> DOMAIN docs])
  /\ last' = Step
  /\ UNCHANGED <<conns, _db, installs, asserts, opened, tmp, load>>
  /\ UNCHANGED storeVars

\* the comparator promise of one document settles: its value is set in the
\* map, or the rejection is ignored
SortKey(c, i, resolved) ==
  /\ tasks[c].pc = "keys"
  /\ i \in tasks[c].waiting
  /\ tasks' = SetTask(c, [tasks[c] EXCEPT
                            !.waiting = @ \ {i},
                            !.values = IF resolved
                                       THEN Put(@, i, tasks[c].docs[i])
                                       ELSE @])
  /\ last' = Step
  /\ UNCHANGED <<conns, _db, installs, asserts, opened, tmp, load>>
  /\ UNCHANGED storeVars

\* the callback of Promise.all: a copy of docs is sorted and returned
SortDone(c) ==
  /\ tasks[c].pc = "keys"
  /\ tasks[c].waiting = {}
  /\ last' = [op |-> "sort", docs |-> tasks[c].docs,
              values |-> tasks[c].values,
              out |-> SortIds([i \in DOMAIN tasks[c].docs |-> i],
                              tasks[c].values)]
  /\ tasks' = SetTask(c, TaskIdle)
  /\ UNCHANGED <<conns, _db, installs, asserts, opened, tmp, load>>
  /\ UNCHANGED storeVars

\* sortDocuments called with every array, every comparator promise
\* resolving or rejecting, in any order
SortNext ==
  \/ \E docs \in SortInputs : SortCall(1, docs)
  \/ \E i \in 1..MaxSort, resolved \in BOOLEAN : SortKey(1, i, resolved)
  \/ SortDone(1)

SortSpec == Init /\ [][SortNext]_vars

\* --------------------------------------------------------- listByMatch
\* options.limit of getMatchingDocuments: not given, or a number of rows
Limits == {NoLimit} \cup (0..MaxDocs)

\* getMatchingDocuments(match, {descending, limit, excludeDeletedDocs}) with
\* no verbs option: the query and the filter of its callback
ListQuery(match, descending, limit, excludeDeletedDocs) ==
  /\ last' = [op |-> "list", match |-> match, descending |-> descending,
              limit |-> limit, excludeDeletedDocs |-> excludeDeletedDocs,
              docs |-> getMatchingDocuments(store, match, descending, limit,
                                            Undefined, excludeDeletedDocs)]
  /\ UNCHANGED storeVars
  /\ UNCHANGED connVars

\* createHighlight and deleteHighlight with any date (up to MaxDocs - 1
\* documents), and listByMatch with every match, direction, limit and
\* excludeDeletedDocs, one call after the other (a query that follows a
\* query sees the store the first one saw)
ListNext ==
  \/ \E m \in Matches, d \in Dates :
       Quiet /\ nextId < MaxDocs /\ putCreateDocument(m, "red", "page", d)
  \/ \E i \in Ids, d \in Dates : Quiet /\ nextId < MaxDocs /\ DeleteGet(i, d)
  \/ DeletePost
  \/ \E m \in Matches, desc \in BOOLEAN, n \in Limits, x \in BOOLEAN :
       Quiet /\ last.op # "list" /\ ListQuery(m, desc, n, x)

ListSpec == Init /\ [][ListNext]_vars

\* ----------------------------------------------------------- formatMatch
\* strings are sequences of atoms: a delimiter, an escape sequence, or a run
\* of other characters
DefaultPort == [http |-> "80", https |-> "443"]

\* the URLs formatMatch is called with, as written: scheme, host, port, path,
\* query and fragment (an empty sequence: not written)
Urls ==
  [scheme : {"http", "https"},
   host : {"a.com"},
   port : {<<>>, <<"8080">>, <<"443">>},
   path : {<<"/">>, <<"/", "p">>, <<"/", "a", "%20", "b">>, <<"/", "100", "%">>},
   query : {<<>>, <<"?", "x=1">>, <<"?", "q=", "%23">>},
   fragment : {<<>>, <<"#", "frag">>}]

\* new URL(url): the port is empty when it is the default port of the scheme
URL(url) ==
  [protocol |-> <<url.scheme, ":">>,
   hostname |-> <<url.host>>,
   port |-> IF url.port = <<DefaultPort[url.scheme]>> THEN <<>> ELSE url.port,
   pathname |-> url.path,
   search |-> url.query,
   hash |-> url.fragment]

\* the options of formatMatch
FormatOptions ==
  [scheme : BOOLEAN, query : BOOLEAN, fragment : BOOLEAN, decode : BOOLEAN]

\* decodeURI(s): URIError for a `%` that starts no escape sequence; the
\* escape sequence of a space is replaced, that of a reserved character kept
decodeURI(s) ==
  IF \E i \in DOMAIN s : s[i] = "%"
  THEN [thrown |-> TRUE, value |-> <<>>]
  ELSE [thrown |-> FALSE, value |-> [i \in DOMAIN s |->
                                      IF s[i] = "%20" THEN " " ELSE s[i]]]

\* the shortcut that returns u.href whatever the options are
formatMatchHref(url, o) ==
  LET u == URL(url)
  IN  [thrown |-> FALSE,
       value |-> u.protocol \o <<"/", "/">> \o u.hostname
                 \o (IF Len(u.port) > 0 THEN <<":">> \o u.port ELSE <<>>)
                 \o u.pathname \o u.search \o u.hash]

\* formatMatch(url, frameUrl, {scheme, query, fragment, decode})
formatMatch(url, o) ==
  LET u  == URL(url)
      m0 == u.hostname
      m1 == IF o.scheme THEN u.protocol \o <<"/", "/">> \o m0 ELSE m0
      m2 == IF Len(u.port) > 0 THEN m1 \o <<":">> \o u.port ELSE m1
      m3 == m2 \o u.pathname
      m4 == IF o.query /\ Len(u.search) > 0 THEN m3 \o u.search ELSE m3
      m5 == IF o.fragment /\ Len(u.hash) > 0 THEN m4 \o u.hash ELSE m4
  IN  IF o.decode THEN decodeURI(m5) ELSE [thrown |-> FALSE, value |-> m5]

\* formatMatch is called (it keeps no state: every call is a first call)
FormatCall(url, o) ==
  /\ last.op = "step"
  /\ last' = [op |-> "format", url |-> url, options |-> o,
              result |-> formatMatch(url, o)]
  /\ UNCHANGED storeVars
  /\ UNCHANGED connVars

FormatNext == \E url \in Urls, o \in FormatOptions : FormatCall(url, o)

FormatSpec == Init /\ [][FormatNext]_vars

\* createHighlight, deleteHighlight and sweepSuperfluous with their steps
\* interleaved
SweepRaceNext ==
  \/ \E m \in Matches : putCreateDocument(m, "red", "page", 1)
  \/ \E i \in Ids : DeleteGet(i, 1)
  \/ DeletePost
  \/ SweepSums
  \/ \E m \in Matches : SweepQuery(m)
  \/ \E m \in Matches : SweepBulk(m)

SweepRaceSpec == Init /\ [][SweepRaceNext]_vars

\* createHighlight (with and without a title) for at most MaxDocs - 2
\* highlights and updateHighlight where className, title or both may be
\* omitted, one call after the other
OmitNext ==
  \/ \E m \in Matches, t \in Titles :
       Quiet /\ nextId + 2 <= MaxDocs /\ putCreateDocument(m, "red", t, 1)
  \/ \E i \in Ids, c \in ClassNames \cup {Undefined}, t \in Titles :
       Quiet /\ UpdateGet(i, c, t, NoRev)
  \/ UpdatePut

OmitSpec == Init /\ [][OmitNext]_vars


\* ================================================================ claims
\* number of stored documents of the given verb and match
CountVerb(st, m, verb) ==
  Cardinality({i \in DOMAIN st : st[i].verb = verb /\ st[i].match = m})

\* listByMatch(m, {excludeDeletedDocs: true}) as a set of ids
LiveList(st, m) ==
  SeqRange(getMatchingDocuments(st, m, FALSE, NoLimit, Undefined, TRUE))

\* a `create` document no stored `delete` document refers to
SemanticallyLive(st, i) ==
  /\ i \in DOMAIN st
  /\ st[i].verb = VERB.CREATE
  /\ ~ \E d \in DOMAIN st :
         st[d].verb = VERB.DELETE /\ st[d].correspondingDocumentId = i

\* C1: for every match M, netCountForMatch(M) is the number of stored CREATE
\* documents of M minus the number of stored DELETE documents of M, and it
\* is 0 when no document of M is stored.
C1_NetCountIsCreatesMinusDeletes ==
  \A m \in Matches :
    /\ getMatchingSum(store, m)
         = CountVerb(store, m, VERB.CREATE) - CountVerb(store, m, VERB.DELETE)
    /\ (~ \E i \in DOMAIN store : store[i].match = m)
         => getMatchingSum(store, m) = 0

\* a match with two CREATE and one DELETE document, another match without any
C1_Witness ==
  \E m, n \in Matches :
    /\ CountVerb(store, m, VERB.CREATE) = 2
    /\ CountVerb(store, m, VERB.DELETE) = 1
    /\ getMatchingSum(store, m) = 1
    /\ ~ \E i \in DOMAIN store : store[i].match = n
    /\ getMatchingSum(store, n) = 0

\* C2: right after deleteHighlight(C.id) has succeeded for a stored CREATE
\* document C, listByMatch(C.match, {excludeDeletedDocs: true}) contains
\* neither C nor the DELETE document the call has posted.
C2_DeletedNotListed ==
  (last.op = "delete" /\ last.ok /\ last.id \in DOMAIN store) =>
    /\ last.id \notin LiveList(store, store[last.id].match)
    /\ last.newId \notin LiveList(store, store[last.id].match)

\* deleteHighlight has succeeded on one of two CREATE documents of a match:
\* the other one is still listed
C2_Witness ==
  /\ last.op = "delete"
  /\ last.ok
  /\ last.id \in DOMAIN store
  /\ last.newId \in DOMAIN store
  /\ LiveList(store, store[last.id].match) # {}

\* C3: a sweepSuperfluous() run without concurrent writers removes every
\* document of every match whose net count was zero when the sweep read the
\* sums, and leaves every document of the other matches as it was (same id,
\* same revision, not deleted).
C3_SweepRemovesExactlyZeroSumMatches ==
  (last.op = "sweep" /\ last.clean) =>
    \A i \in DOMAIN last.snap :
      IF CountVerb(last.snap, last.snap[i].match, VERB.CREATE)
           = CountVerb(last.snap, last.snap[i].match, VERB.DELETE)
      THEN i \notin DOMAIN store
      ELSE i \in DOMAIN store /\ store[i] = last.snap[i]

\* a sweep has removed the documents of one match and kept those of another
C3_Witness ==
  /\ last.op = "sweep"
  /\ last.clean
  /\ \E i \in DOMAIN last.snap : i \notin DOMAIN store
  /\ \E i \in DOMAIN last.snap : i \in DOMAIN store

\* C4: sweepSuperfluous() never removes a CREATE document that is
\* semantically live, i.e. one no stored DELETE document refers to.
C4_SweepKeepsLiveCreates ==
  (last.op = "sweep" /\ last.clean) =>
    \A i \in DOMAIN last.snap :
      SemanticallyLive(last.snap, i) => i \in DOMAIN store

\* C5: for every match M, netCountForMatch(M) is the number of CREATE
\* documents of M without a corresponding DELETE document, the documents of
\* listByMatch(M, {excludeDeletedDocs: true}); so a net count of 0 means
\* that list is empty.
C5_NetCountIsLiveCount ==
  \A m \in Matches :
    /\ getMatchingSum(store, m) = Cardinality(LiveList(store, m))
    /\ LiveList(store, m)
         = {i \in DOMAIN store : SemanticallyLive(store, i) /\ store[i].match = m}
    /\ getMatchingSum(store, m) = 0 => LiveList(store, m) = {}


\* C6: however many open() calls are issued concurrently on a new database
\* with no cached connection, putDesignDocuments is invoked at most once.
C6_ViewsInstalledAtMostOnce == installs <= 1

\* C7: all open() calls issued before the connection is cached resolve to
\* the same PouchDB object, this._db is assigned once, and the assertion
\* "DB already has PouchDB instance" never fails.
C7_OneConnection ==
  /\ asserts = 0
  /\ Cardinality(opened) <= 1

\* C8: when loadDB fails in the replication from '_tmpdb' into the main
\* database, the main database holds, once the promise has rejected, exactly
\* the documents it held before the call.
C8_FailedTransferKeepsStore ==
  (last.op = "load" /\ ~last.ok /\ last.run.failedAt = "replicate") =>
    store = last.run.pre

\* C9: while loadDB is in flight, a query that succeeds sees either all the
\* documents the database held before the call or all the imported ones.
C9_AllOrNothingVisibility ==
  (last.op = "query" /\ last.ok /\ load.pc = "run") =>
    (store = load.pre \/ store = load.payload)

\* C10: when tmpDB.load fails, destroyDB has not been invoked, and the
\* documents of the main database and the cached connection are as they
\* were when loadDB was called.
C10_FailedLoadTouchesNothing ==
  (last.op = "load" /\ last.run.failedAt = "load") =>
    /\ ~last.ok
    /\ ~last.run.destroyInvoked
    /\ store = last.run.pre
    /\ last.run.quiet => (design = last.run.design0 /\ _db = last.run.db0)

\* loadDB has rejected after a failed load on a database that holds a
\* highlight and has a cached connection
C10_Witness ==
  /\ last.op = "load"
  /\ ~last.ok
  /\ last.run.failedAt = "load"
  /\ last.run.quiet
  /\ last.run.pre = StoreA
  /\ last.run.db0 # 0
  /\ _db = last.run.db0
  /\ tmp.state = "destroyed"

\* C11: every loadDB that rejects has destroyed '_tmpdb' and rejects with
\* the error of the step that failed first.
C11_FailedLoadCleansUpAndRethrows ==
  (last.op = "load" /\ ~last.ok) =>
    (tmp.state = "destroyed" /\ last.error = last.run.failedAt)

\* C12: updateCreateDocument(D.id, {className: D.className, title: D.title})
\* on a stored `create` document D resolves at once to
\* {ok: true, id: D.id, rev: D._rev} and writes nothing, in every state
\* (so also when the call is repeated).
C12_UnchangedUpdateIsNoOp ==
  [][\A i \in Ids :
       (/\ i \in DOMAIN store
        /\ store[i].verb = VERB.CREATE
        /\ UpdateGet(i, store[i].className, store[i].title, NoRev))
       => (/\ last'.op = "update"
           /\ last'.ok
           /\ ~last'.wrote
           /\ last'.id = i
           /\ last'.rev = store[i]._rev
           /\ store' = store)]_vars

\* an update with unchanged values has resolved for a document without a
\* title that an earlier update had rewritten
C12_Witness ==
  /\ last.op = "update"
  /\ last.ok
  /\ ~last.wrote
  /\ last.rev = 2
  /\ store[last.id]._rev = 2
  /\ store[last.id].className = "blue"
  /\ store[last.id].title = Undefined

\* the fields of a `create` document that no update may change
Frame(doc) ==
  [verb |-> doc.verb, match |-> doc.match, range |-> doc.range,
   text |-> doc.text, date |-> doc.date, v |-> doc.v]

\* C13: every step of an updateCreateDocument call (any className, title and
\* options.rev) leaves every stored `create` document stored under its id
\* with the same verb, match, range, text, date and version.
C13_UpdateKeepsFrame ==
  [][(upd[1].pc = "put" \/ upd'[1].pc = "put" \/ last'.op = "update") =>
       \A i \in DOMAIN store :
         store[i].verb = VERB.CREATE =>
           (i \in DOMAIN store' /\ Frame(store'[i]) = Frame(store[i]))]_vars

\* an update has written a new className and a title into a document
C13_Witness ==
  /\ last.op = "update"
  /\ last.ok
  /\ last.wrote
  /\ store[last.id]._rev = 2
  /\ store[last.id].className = "blue"
  /\ store[last.id].title = "page"
  /\ store[last.id].match = "a.com/p"

\* the messages of the errors thrown by the two verb tests
WrongVerb == {"incorrect verb", "incorrect corresponding verb"}

\* C14 as stated: an updateCreateDocument or postDeleteDocument call with
\* the id of a stored `delete` document is rejected with a wrong-verb error
\* and the store is left as it was.
C14_DeleteDocRejectedWrongVerb ==
  [][(/\ last'.op \in {"update", "delete"}
      /\ last'.id \in DOMAIN store
      /\ store[last'.id].verb = VERB.DELETE)
     => (~last'.ok /\ last'.err \in WrongVerb /\ store' = store)]_vars

\* C14 amended: such a call is always rejected and writes nothing; the error
\* is the wrong-verb one unless the call is an update whose options.rev names
\* a revision the document does not have (db.get itself then rejects).
C14_DeleteDocRejected ==
  [][(/\ last'.op \in {"update", "delete"}
      /\ last'.id \in DOMAIN store
      /\ store[last'.id].verb = VERB.DELETE)
     => (/\ ~last'.ok
         /\ store' = store
         /\ last'.err \notin WrongVerb =>
              /\ last'.op = "update"
              /\ last'.err = "missing"
              /\ ~\E c \in ClassNames, t \in Titles,
                     r \in {NoRev, store[last'.id]._rev} :
                    UpdateGet(last'.id, c, t, r))]_vars

\* a postDeleteDocument call on the id of a `delete` document has been
\* rejected with the store holding that document and its `create` document
C14_Witness ==
  /\ last.op = "delete"
  /\ ~last.ok
  /\ last.err = "incorrect corresponding verb"
  /\ last.id \in DOMAIN store
  /\ store[last.id].verb = VERB.DELETE
  /\ store[last.id].correspondingDocumentId \in DOMAIN store

\* C15: a postDeleteDocument(createId) that succeeds adds exactly one
\* document, a `delete` document with the match of the `create` document
\* createId and correspondingDocumentId = createId, and leaves that document
\* and every other stored document as it was.
C15_DeleteAddsOneDocument ==
  [][(last'.op = "delete" /\ last'.ok) =>
       /\ last'.id \in DOMAIN store
       /\ store[last'.id].verb = VERB.CREATE
       /\ last'.newId \notin DOMAIN store
       /\ DOMAIN store' = DOMAIN store \cup {last'.newId}
       /\ store'[last'.newId].verb = VERB.DELETE
       /\ store'[last'.newId].match = store[last'.id].match
       /\ store'[last'.newId].correspondingDocumentId = last'.id
       /\ \A i \in DOMAIN store : store'[i] = store[i]]_vars

\* a highlight of the second match, updated once, has been deleted
C15_Witness ==
  /\ last.op = "delete"
  /\ last.ok
  /\ store[last.newId].verb = VERB.DELETE
  /\ store[last.newId].match = MatchOrder[2]
  /\ store[last.id].verb = VERB.CREATE
  /\ store[last.id]._rev = 2
  /\ Cardinality(DOMAIN store) >= 3

\* C16: every stored `delete` document refers to a stored `create` document
\* of the same match.
C16_DeleteRefersToStoredCreate ==
  \A i \in DOMAIN store :
    store[i].verb = VERB.DELETE =>
      /\ store[i].correspondingDocumentId \in DOMAIN store
      /\ store[store[i].correspondingDocumentId].verb = VERB.CREATE
      /\ store[store[i].correspondingDocumentId].match = store[i].match

\* C17: getMatchingSum(M) is never negative, whatever calls have been made.
C17_NetCountNeverNegative ==
  \A m \in Matches : getMatchingSum(store, m) >= 0

\* C18: a write of updateCreateDocument or removeMatchingDocuments that is
\* based on a revision other than the stored one is answered with a conflict
\* and leaves the document as it is; a document changes or disappears only
\* through a write based on its stored revision, which gives it the next
\* revision, so of two writers that read the same revision at most one writes.
C18_StaleWriteConflicts ==
  [][/\ \A u \in Updaters :
          (/\ upd[u].pc = "put"
           /\ upd'[u].pc = "idle"
           /\ Conflict(store, upd[u].id, upd[u].doc._rev))
          => (/\ last' = [op |-> "update", ok |-> FALSE, err |-> "conflict",
                          id |-> upd[u].id]
              /\ store' = store)
     /\ \A i \in DOMAIN store :
          \/ i \in DOMAIN store' /\ store'[i] = store[i]
          \/ /\ i \in DOMAIN store'
             /\ store'[i]._rev = store[i]._rev + 1
             /\ \E u \in Updaters :
                  /\ upd[u].pc = "put"
                  /\ upd'[u].pc = "idle"
                  /\ upd[u].id = i
                  /\ upd[u].doc._rev = store[i]._rev
                  /\ store'[i] = [upd[u].doc EXCEPT !._rev = @ + 1]
          \/ /\ i \notin DOMAIN store'
             /\ \/ rem.pc = "bulk" /\ <<i, store[i]._rev>> \in rem.docs
                \/ /\ sweep.pc = "run"
                   /\ \E r \in sweep.reads : <<i, store[i]._rev>> \in r[2]]_vars

\* two updateCreateDocument calls read revision 1 of a document: the first
\* put made it revision 2, the second has just been answered with a conflict
C18_Witness ==
  /\ last.op = "update"
  /\ ~last.ok
  /\ last.err = "conflict"
  /\ last.id \in DOMAIN store
  /\ store[last.id]._rev = 2
  /\ store[last.id].className = "blue"

\* C19: the PouchDB object an open() resolves to has been neither closed nor
\* destroyed.
C19_OpenResolvesToReadyConnection ==
  last.op = "getDB" => conns[last.conn] = "open"

\* C20: when destroyDB has resolved, this._db is cleared and the database
\* holds no document; the open() that follows resolves to a new PouchDB
\* object, with both design documents installed (once) in the empty database.
C20_DestroyThenOpenStartsFresh ==
  /\ (last.op = "destroy" /\ last.ok) =>
       (_db = 0 /\ store = <<>> /\ design = {})
  /\ (/\ last.op = "getDB"
      /\ last.conn > 1
      /\ conns[last.conn - 1] = "destroyed"
      /\ last.conn = Len(conns)
      /\ conns[last.conn] = "open")
     => (/\ _db = last.conn
         /\ store = <<>>
         /\ design = DesignDocs
         /\ installs = 1)

\* a database that held a highlight has been destroyed and opened again
C20_Witness ==
  /\ last.op = "getDB"
  /\ last.conn = 2
  /\ conns = <<"destroyed", "open">>
  /\ _db = 2
  /\ store = <<>>
  /\ design = DesignDocs

\* C21: putDB(doc, {id, rev}) is rejected with the missing-id error exactly
\* when neither doc._id nor the id override is set (a rev override alone does
\* not help), and then nothing is written; whenever an id can be resolved
\* db.put is attempted with that id, the override taking precedence over
\* doc._id, and only that document can change; the caller's doc object is
\* left as it was.
C21_PutDBResolvesId ==
  [][(tasks[1].op = "put" /\ last'.op = "putDB") =>
       LET t == tasks[1]
           noId == ~Given(t.doc._id) /\ ~Given(t.id)
           target == IF Given(t.id) THEN t.id ELSE t.doc._id
       IN  /\ (last'.err = "undefined document id") <=> noId
           /\ noId => (~last'.ok /\ store' = store)
           /\ ~noId =>
                /\ last'.id = target
                /\ last'.err \in {"none", "conflict"}
                /\ \A i \in DOMAIN store \cup DOMAIN store' :
                     i # target => (i \in DOMAIN store /\ i \in DOMAIN store'
                                    /\ store'[i] = store[i])
                /\ last'.ok => (target \in DOMAIN store'
                                /\ store'[target]._rev =
                                     (IF Given(t.rev) THEN t.rev
                                      ELSE t.doc._rev) + 1)
           /\ last'.doc = t.doc]_vars

\* a put whose id override replaced the doc._id of another stored document
\* has been written
C21_Witness ==
  /\ last.op = "putDB"
  /\ last.ok
  /\ last.doc._id # NoId
  /\ last.id # last.doc._id
  /\ last.doc._id \in DOMAIN store
  /\ store[last.id]._rev = 2

\* C22: when removeMatchingDocuments fails for some of the zero-sum matches
\* of a sweepSuperfluous() run (without concurrent writers), then once the
\* calls of the run have settled every document of every other zero-sum match
\* has been removed.
C22_FailureLeavesOtherRemovals ==
  (last.op = "sweep" /\ last.clean /\ last.failed # {}) =>
    \A i \in DOMAIN last.snap :
      last.snap[i].match \in last.zero \ last.failed => i \notin DOMAIN store

\* a sweep over two zero-sum matches has failed for one of them and removed
\* the documents of the other
C22_Witness ==
  /\ last.op = "sweep"
  /\ last.clean
  /\ ~last.ok
  /\ last.zero = Matches
  /\ Cardinality(last.failed) = 1
  /\ \E i \in DOMAIN last.snap : i \notin DOMAIN store
  /\ \E i \in DOMAIN last.snap : i \in DOMAIN store

\* C23: dumpDB exports every event document and no design document; when
\* loadDB has imported the export of the store as it was (it destroys the
\* database, opens a new one and replicates the payload), getSums() returns
\* the same set of rows as before, and both design documents are stored,
\* installed once in the new database.
C23_RoundTripKeepsSums ==
  /\ last.op = "dump" =>
       (last.payload.design = {} /\ last.payload.docs = store)
  /\ (/\ last.op = "load"
      /\ last.ok
      /\ last.run.payload = Dump(last.run.pre, last.run.design0).docs)
     => (/\ getSums(store) = getSums(last.run.pre)
         /\ design = DesignDocs
         /\ installs = 1)

\* a store with a deleted highlight of one match and a live highlight of
\* another has been exported and imported into a new database
C23_Witness ==
  /\ last.op = "load"
  /\ last.ok
  /\ last.run.payload = Dump(last.run.pre, last.run.design0).docs
  /\ Cardinality(getSums(store)) = 2
  /\ \E r \in getSums(store) : r.value = 0
  /\ _db = 2
  /\ conns[1] = "destroyed"

\* C24: sortDocuments returns a permutation of docs in which every document
\* whose key resolution succeeded precedes every document whose key
\* resolution failed, the succeeded documents are in ascending key order and
\* the failed documents keep their relative input order (dates 5, 1 and a
\* failed third document give 1, 5, failed).
C24_FailedSortLast ==
  last.op = "sort" =>
    LET out == last.out
        ok(i) == i \in DOMAIN last.values
    IN  /\ Len(out) = Len(last.docs)
        /\ SeqRange(out) = DOMAIN last.docs
        /\ \A p, q \in DOMAIN out :
             p < q =>
               /\ ~(~ok(out[p]) /\ ok(out[q]))
               /\ (ok(out[p]) /\ ok(out[q])) =>
                    SortCompare(last.values[out[p]], last.values[out[q]]) <= 0
               /\ (~ok(out[p]) /\ ~ok(out[q])) => out[p] < out[q]

\* the documents of match m, as a set of ids
EventsOf(st, m) == {i \in DOMAIN st : st[i].match = m}

\* C25: listByMatch(M, {descending, limit}) without verb filter and with
\* excludeDeletedDocs = false returns only documents whose match is M (none
\* of a match that M is a prefix of), each at most once, in non-decreasing
\* date order (non-increasing when descending); without limit it returns
\* every stored document of M, with limit n the first min(n, count) of them
\* in that order.
C25_ListByMatchIsRangeOfMatch ==
  (last.op = "list" /\ ~last.excludeDeletedDocs) =>
    LET out == last.docs
        all == getMatchingDocuments(store, last.match, last.descending,
                                    NoLimit, Undefined, FALSE)
        count == Cardinality(EventsOf(store, last.match))
    IN  /\ SeqRange(out) \subseteq EventsOf(store, last.match)
        /\ \A p, q \in DOMAIN out :
             p < q =>
               /\ out[p] # out[q]
               /\ IF last.descending
                  THEN store[out[p]].date >= store[out[q]].date
                  ELSE store[out[p]].date <= store[out[q]].date
        /\ last.limit = NoLimit =>
             (SeqRange(out) = EventsOf(store, last.match) /\ Len(out) = count)
        /\ last.limit # NoLimit =>
             /\ Len(out) = (IF last.limit < count THEN last.limit ELSE count)
             /\ out = SubSeq(all, 1, Len(out))

\* a descending query with limit 1 has returned the later of the two
\* documents of a match, while the longer match has a document too
C25_Witness ==
  /\ last.op = "list"
  /\ ~last.excludeDeletedDocs
  /\ last.descending
  /\ last.limit = 1
  /\ last.match = MatchOrder[1]
  /\ Len(last.docs) = 1
  /\ \E i \in EventsOf(store, MatchOrder[1]) :
       store[i].date < store[last.docs[1]].date
  /\ EventsOf(store, MatchOrder[2]) # {}

\* C28: for every match M, limit n and direction,
\* listByMatch(M, {excludeDeletedDocs: true, limit: n, descending}) returns
\* no `delete` document and no `create` document for which a `delete`
\* document with that correspondingDocumentId is stored for M, even when the
\* row limit cuts the range.
C28_LimitedListExcludesDeleted ==
  (last.op = "list" /\ last.excludeDeletedDocs) =>
    \A i \in SeqRange(last.docs) :
      /\ store[i].verb # VERB.DELETE
      /\ ~ \E d \in EventsOf(store, last.match) :
             /\ store[d].verb = VERB.DELETE
             /\ store[d].correspondingDocumentId = i

\* the parts the claim lists, concatenated in its order
PartsOf(url, o) ==
  (IF o.scheme THEN <<url.scheme, ":", "/", "/">> ELSE <<>>)
  \o <<url.host>>
  \o (IF URL(url).port # <<>> THEN <<":">> \o url.port ELSE <<>>)
  \o url.path
  \o (IF o.query /\ url.query # <<>> THEN url.query ELSE <<>>)
  \o (IF o.fragment /\ url.fragment # <<>> THEN url.fragment ELSE <<>>)

\* C26 as stated: the result of formatMatch is the concatenation of scheme
\* and `://` (when scheme = true), host, `:` and port (only for an explicit
\* port), path, query (when query = true and there is one) and fragment
\* (when fragment = true and there is one).
C26_FormatMatchIsConcatenation ==
  last.op = "format" =>
    /\ ~last.result.thrown
    /\ last.result.value = PartsOf(last.url, last.options)

\* C26 amended: the result is that concatenation when decode = false, and
\* decodeURI of it by default, which replaces the escape sequences of
\* unreserved characters and throws for a malformed one; the port appears
\* only if one is written and is not the default port of the scheme. (The
\* result is this function of the URL and the options, and of nothing else.)
C26_FormatMatchIsDecodedConcatenation ==
  last.op = "format" =>
    /\ last.result =
         (IF last.options.decode
          THEN decodeURI(PartsOf(last.url, last.options))
          ELSE [thrown |-> FALSE, value |-> PartsOf(last.url, last.options)])
    /\ (PartsOf(last.url, last.options) #
          PartsOf([last.url EXCEPT !.port = <<>>], last.options))
       => last.url.port # <<>>

\* the example of the claim: https://a.com:8080/p?x=1#frag with the default
\* options gives https://a.com:8080/p?x=1
C26_Witness ==
  /\ last.op = "format"
  /\ last.url = [scheme |-> "https", host |-> "a.com", port |-> <<"8080">>,
                 path |-> <<"/", "p">>, query |-> <<"?", "x=1">>,
                 fragment |-> <<"#", "frag">>]
  /\ last.options = [scheme |-> TRUE, query |-> TRUE, fragment |-> FALSE,
                     decode |-> TRUE]
  /\ last.result.value = <<"https", ":", "/", "/", "a.com", ":", "8080",
                           "/", "p", "?", "x=1">>

\* C27: sweepSuperfluous is not isolated from concurrent writers. Every bulk
\* write of a sweep removes the documents the sweep has read for the match,
\* at the revision read, whatever the net count of the match is by then; so
\* a createHighlight for M that completes after the sweep has read the net
\* count 0 of M and before it reads the documents of M has its new, live
\* `create` document removed although the net count of M is not zero.
C27_SweepRemovesWhatItRead ==
  [][\A r \in sweep.reads :
       r \notin sweep'.reads =>
         store' = Without(store,
                          {d[1] : d \in {e \in r[2] :
                                           /\ e[1] \in DOMAIN store
                                           /\ store[e[1]]._rev = e[2]}})]_vars

\* the three documents ever stored, all of one match, have been removed by
\* the last bulk write of a sweep: a `create` and its `delete` document,
\* which the sweep saw as net count 0, and a live `create` document stored
\* after that, with which the net count was 1 when it was removed
C27_Witness ==
  /\ last.op = "sweep"
  /\ ~last.clean
  /\ last.removal.ids = {1, 2, 3}
  /\ last.removal.sum = 1
  /\ last.removal.live = {3}
  /\ nextId = 4
  /\ store = <<>>

\* C29: an omitted field counts as unchanged: for a stored `create` document
\* D that has a title, updateHighlight(D.id, {className: D.className}),
\* updateHighlight(D.id, {}) and updateHighlight(D.id, {title: D.title})
\* take the short-circuit: they resolve at once to {ok: true, id: D.id,
\* rev: D._rev} and no new revision is written.
C29_OmittedFieldIsUnchanged ==
  [][\A i \in DOMAIN store :
       (store[i].verb = VERB.CREATE /\ store[i].title # Undefined) =>
         \A a \in {<<store[i].className, Undefined>>,
                   <<Undefined, Undefined>>,
                   <<Undefined, store[i].title>>} :
           UpdateGet(i, a[1], a[2], NoRev)
           => (/\ last'.op = "update"
               /\ last'.ok
               /\ ~last'.wrote
               /\ last'.id = i
               /\ last'.rev = store[i]._rev
               /\ upd'[1].pc = "idle"
               /\ store' = store)]_vars

====
